---------------------------- MODULE Spec2Model ----------------------------
(***************************************************************************)
(* Scan orchestration of the rusty-hog helper scripts: target enumeration, *)
(* dispatch of the external scanner (worker pool or sequential loop),      *)
(* aggregation of the per-target JSON artifacts and the telemetry POST.    *)
(*                                                                         *)
(* The scanner binaries, the listing APIs and the ingestion endpoint are   *)
(* external: their answers are nondeterministic choices of the actions.    *)
(***************************************************************************)
EXTENDS Integers, Sequences, FiniteSets, TLC

(* ------------------------------ bounds --------------------------------- *)

\* Largest number of entries a listing (repositories, Drive files) returns.
MaxTargets == 5

\* Largest value given to --sample.
MaxSample == 3

\* Largest number of entries of a directory listing.
MaxEntries == 3

\* Largest number of Jira issues a search returns, and of Google document
\* links in all of them together.
MaxIssues == 2
MaxLinks == 2

\* Over a sequence of runs of ghe_secret_monitor: the last hour of the wall
\* clock, the number of commits pushed and the number of runs.
MaxClock == 96

\* Over the pages of a Jira search: the largest page size the server uses and
\* the largest startAt the script is followed to.
MaxPage == 2
MaxStart == 6
MaxCommits == 3
MaxRuns == 3

(* ------------------------- program constants --------------------------- *)

\* timedelta(hours=24)
WindowHours == 24

GhePoolWidth == 3
PolicePoolWidth == 3
OrgPoolWidth == 4
DrivePoolWidth == 4

tempdir == "/tmp"

INSIGHTS_ACCT_ID == "1234567"
INSIGHTS_INSERT_KEY == "insert-key"

PoolScripts ==
    {"ghe_secret_monitor", "secret_police", "gh_org_scanner", "gdrive_scanner"}

\* Pool(3) / Pool(4) of each pool-based script.
PoolWidth(s) ==
    CASE s = "ghe_secret_monitor" -> GhePoolWidth
      [] s = "secret_police" -> PolicePoolWidth
      [] s = "gh_org_scanner" -> OrgPoolWidth
      [] OTHER -> DrivePoolWidth

comment_worthy_reasons ==
    { "Amazon AWS Access Key ID", "Amazon MWS Auth Token", "Slack Token",
      "GitHub", "MailChimp API Key", "Mailgun API Key", "Slack Webhook",
      "New Relic Insights Key (specific)", "New Relic Insights Key (vague)",
      "New Relic License Key", "New Relic HTTP Auth Headers and API Key",
      "New Relic API Key Service Key (new format)",
      "New Relic APM License Key (new format)",
      "New Relic APM License Key (new format, region-aware)",
      "New Relic REST API Key (new format)",
      "New Relic Admin API Key (new format)",
      "New Relic Insights Insert Key (new format)",
      "New Relic Insights Query Key (new format)",
      "New Relic Synthetics Private Location Key (new format)" }

\* A block list that does not name the spreadsheets.
BlockListWithoutSheets ==
    { "application/vnd.google-apps.audio", "application/vnd.google-apps.document",
      "application/vnd.google-apps.folder", "application/vnd.google-apps.presentation" }

mime_block_list ==
    { "application/vnd.google-apps.audio", "application/vnd.google-apps.document",
      "application/vnd.google-apps.drive", "application/vnd.google-apps.drawing",
      "application/vnd.google-apps.file", "application/vnd.google-apps.folder",
      "application/vnd.google-apps.form", "application/vnd.google-apps.fusiontable",
      "application/vnd.google-apps.map", "application/vnd.google-apps.photo",
      "application/vnd.google-apps.presentation", "application/vnd.google-apps.script",
      "application/vnd.google-apps.shortcut", "application/vnd.google-apps.site",
      "application/vnd.google-apps.spreadsheet", "application/vnd.google-apps.unknown",
      "application/vnd.google-apps.video" }

(* ------------------------------ state ---------------------------------- *)

VARIABLES
    script,        \* the script that is running
    pc,            \* the step of the main process
    err,           \* "" or the exception that ended the run
    config,        \* the options of the run: [recursive] of a listing source
    sample,        \* --sample=N, 0 when the option is absent
    listing,       \* what the listing API returns: a sequence of entries
    examined,      \* number of listed entries kept after sampling
    targets,       \* the targets handed to the dispatcher, in dispatch order
    task,          \* per dispatched target: queued, running, or the scanner's outcome
    results,       \* per finished target: the record its worker returned
    invocations,   \* the scanner command lines launched so far
    nextUuid,      \* number of uuid4() values drawn so far
    scanned,       \* per duroc target: whose content the scanner read
    output,        \* the result records the dispatch returned
    idx,           \* position of the aggregation loop
    disk,          \* the temp directory: path -> content
    output_array,  \* the finding events (or CSV rows) collected
    comments,      \* the commit comments created
    posts,         \* the telemetry POSTs performed
    log,           \* the WARNING/ERROR records of the main process
    clock,         \* the wall clock, in hours
    pushed,        \* the commits of the repository: the hour each was pushed
    starts,        \* the wall-clock start of each run so far
    swept,         \* the commits a scanner was pointed at by some run
    start_num,     \* Jira search: the startAt of the last request
    issues,        \* Jira search: the issues collected so far
    total,         \* Jira search: result['total'] of the first response
    result         \* Jira search: the last response

\* What lasts from one run of a script to the next.
history == << clock, pushed, starts, swept >>

\* The state of the Jira search.
search == << start_num, issues, total, result >>

vars == << script, config, pc, err, sample, listing, examined, targets, task, results,
           invocations, nextUuid, scanned, output, idx, disk, output_array,
           comments, posts, log, history, search >>

(* ------------------------------ helpers -------------------------------- *)

Range(s) == { s[i] : i \in 1..Len(s) }

\* The elements of a set of numbers as an ascending sequence.
RECURSIVE SortedSeq(_)
SortedSeq(S) ==
    IF S = {} THEN << >>
    ELSE LET m == CHOOSE x \in S : \A y \in S : x <= y
         IN << m >> \o SortedSeq(S \ {m})

Min(a, b) == IF a <= b THEN a ELSE b

\* A file name that is the same for every worker.
FixedName(n) == "scan-output"

\* str(uuid.uuid4()): the n-th value drawn; uuid4 values do not repeat.
Uuid(n) == "uuid-" \o ToString(n)

\* os.path.join(tempdir, name)
PathJoin(dir, name) == dir \o "/" \o name

\* Writing content c to path p; removing path p.
WriteFile(d, p, c) == [q \in DOMAIN d \cup {p} |-> IF q = p THEN c ELSE d[q]]
KeepFile(d, p) == d
RemoveFile(d, p) == [q \in DOMAIN d \ {p} |-> d[q]]

NoFiles == [q \in {} |-> 0]


(* ------------------------ external collaborators ----------------------- *)

\* What the GitHub API reports for the n-th listed repository.
SshUrl(n) == "git@ghe.example:org/repo" \o ToString(n) \o ".git"
HtmlUrl(n) == "https://ghe.example/org/repo" \o ToString(n)
RepoName(n) == "repo" \o ToString(n)

\* list(repo.get_commits(since=twentyfourhoursago)) of the n-th repository
\* when it has commits in the window: newest first, one or two commits.
Commits(n) ==
    IF n % 2 = 1 THEN << "sha-" \o ToString(n) \o "-head", "sha-" \o ToString(n) >>
    ELSE << "sha-" \o ToString(n) >>

\* What the API answers for the n-th repository.  A repository of `healthy`
\* has commits in the window and an SSH URL; of the others, get_commits raises
\* GithubException for one, one has no commit in the window and one has no
\* SSH URL, in turn.
RepoAnswer(n, healthy) ==
    [ id |-> n, name |-> RepoName(n), mimeType |-> "",
      get_commits |-> IF n \notin healthy /\ n % 3 = 1 THEN "GithubException" ELSE "ok",
      commits |-> IF n \in healthy \/ n % 3 = 0 THEN Commits(n) ELSE << >>,
      ssh_url |-> IF n \in healthy \/ n % 3 # 0 THEN SshUrl(n) ELSE "" ]

\* A listing of n repositories.
RepoListing(n) == [i \in 1..n |-> RepoAnswer(i, 1..n)]

\* The listings of repositories with their commits of the last 24 hours.
CommitListings ==
    { [i \in 1..n |-> RepoAnswer(i, healthy)] :
        n \in 0..MaxTargets, healthy \in SUBSET (1..MaxTargets) }

\* What the Drive API reports: nd documents and spreadsheets, then nb binary
\* files, then nf folders.  Every second file carries the same name.
DriveName(i) == IF i % 2 = 0 THEN "notes.txt" ELSE "file" \o ToString(i)
DriveId(i) == "gd-" \o ToString(i)
DriveLink(i) == "https://drive.example/uc?id=" \o DriveId(i)
DriveMime(i, nd, nb) ==
    IF i <= nd
    THEN IF i % 2 = 1 THEN "application/vnd.google-apps.document"
         ELSE "application/vnd.google-apps.spreadsheet"
    ELSE IF i <= nd + nb THEN "application/zip"
    ELSE "application/vnd.google-apps.folder"
DriveListing(nd, nb, nf) ==
    [i \in 1..(nd + nb + nf) |->
        [id |-> i, name |-> DriveName(i), mimeType |-> DriveMime(i, nd, nb)]]

Listings(s) ==
    IF s = "gdrive_scanner"
    THEN { DriveListing(c[1], c[2], c[3]) :
             c \in { d \in (0..MaxTargets) \X (0..MaxTargets) \X (0..1) :
                       d[1] + d[2] + d[3] <= MaxTargets } }
    ELSE IF s = "gh_org_scanner" THEN { RepoListing(n) : n \in 0..MaxTargets }
    ELSE CommitListings

\* The findings the scanner reports for the n-th target when it succeeds
\* (the scanner is deterministic: the same target gives the same findings).
FindingNew ==
    [ commitHash |-> "c0ffee", reason |-> "Slack Token", path |-> "config.yml",
      new_line_num |-> 7, old_line_num |-> 5, parent_commit_hash |-> "beef00" ]
FindingOld ==
    [ commitHash |-> "def", reason |-> "Generic Secret", path |-> "x.go",
      new_line_num |-> 0, old_line_num |-> 42, parent_commit_hash |-> "abc" ]
ScannerFindings(n) ==
    CASE n % 4 = 1 -> << FindingNew >>
      [] n % 4 = 2 -> << FindingOld >>
      [] n % 4 = 3 -> << >>
      [] OTHER -> << FindingOld, FindingNew >>

\* The content of a file of the temp directory.
JsonFile(fs) == [kind |-> "json", findings |-> fs, of |-> 0]
GarbledFile == [kind |-> "garbled", findings |-> << >>, of |-> 0]
Download(n) == [kind |-> "download", findings |-> << >>, of |-> n]

\* How a scanner run given --outputfile can end: exit 0 with a JSON array in the
\* artifact, non-zero exit with no artifact, or an artifact that is not JSON.
ScanOutcomes == {"ok", "failed", "garbled"}

(* ----------------------------- enumeration ----------------------------- *)

\* A sampling step that keeps the whole list.
SampleIgnored(S, k) == {S}

\* random.sample(list, k): k distinct elements; the whole list without --sample.
Sampled(S, k) ==
    IF k = 0 THEN {S} ELSE { T \in SUBSET S : Cardinality(T) = k }

\* commits[-1].sha
SinceCommit(commits) == commits[Len(commits)]

\* repo_dict[repo.ssh_url] = (commits[-1].sha, repo.html_url)
RepoTarget(s, r) ==
    [ id |-> r.id, scanner |-> "choctaw_hog", key |-> r.ssh_url,
      since |-> SinceCommit(r.commits),
      url |-> IF s = "secret_police" THEN HtmlUrl(r.id) \o "/commit/" ELSE HtmlUrl(r.id),
      name |-> r.name ]

\* A filter that keeps every repository whose commit listing did not raise.
PassingUnfiltered(l, repos) ==
    { n \in repos : l[n].get_commits = "ok" /\ Len(l[n].commits) > 0 }

\* The repositories the loop over repos adds to repo_dict: get_commits did
\* not raise, the list of commits is not empty, ssh_url is not empty.
Passing(l, repos) ==
    { n \in repos : /\ l[n].get_commits = "ok"
                    /\ Len(l[n].commits) > 0
                    /\ l[n].ssh_url # "" }

OrgTarget(n) ==
    [ id |-> n, scanner |-> "choctaw_hog", key |-> SshUrl(n), since |-> "",
      url |-> "", name |-> RepoName(n) ]

DriveTarget(f, sc) ==
    [ id |-> f.id, scanner |-> sc, key |-> DriveId(f.id), since |-> "",
      url |-> DriveLink(f.id), name |-> f.name ]

TargetOf(s, sc, l, n) ==
    CASE s = "gdrive_scanner" -> DriveTarget(l[n], sc)
      [] s = "gh_org_scanner" -> OrgTarget(n)
      [] OTHER -> RepoTarget(s, l[n])

Targets(s, sc, l, ids) ==
    [i \in 1..Cardinality(ids) |-> TargetOf(s, sc, l, SortedSeq(ids)[i])]

Queued(ts) == [n \in { ts[i].id : i \in 1..Len(ts) } |-> "queued"]

EnumUnchanged ==
    UNCHANGED << history, search, script, config, sample, listing, results, invocations, nextUuid, scanned,
                 output, idx, disk, output_array, comments, posts, log >>

\* ghe_secret_monitor: the repositories, sampled, then those with commits in
\* the last 24 hours and an SSH URL.
EnumerateGhe ==
    /\ script = "ghe_secret_monitor" /\ pc = "enumerate" /\ err = ""
    /\ sample <= Len(listing)
    /\ \E repos \in Sampled(DOMAIN listing, sample) :
            /\ examined' = Cardinality(repos)
            /\ targets' = Targets(script, "choctaw_hog", listing, Passing(listing, repos))
            /\ task' = Queued(targets')
    /\ pc' = "pool"
    /\ UNCHANGED err
    /\ EnumUnchanged

\* random.sample raises ValueError when the sample is larger than the list.
EnumerateGheSampleTooLarge ==
    /\ script = "ghe_secret_monitor" /\ pc = "enumerate" /\ err = ""
    /\ sample > Len(listing)
    /\ err' = "ValueError"
    /\ UNCHANGED << pc, examined, targets, task >>
    /\ EnumUnchanged

\* secret_police: as ghe_secret_monitor, without --sample.
EnumeratePolice ==
    /\ script = "secret_police" /\ pc = "enumerate" /\ err = ""
    /\ examined' = Len(listing)
    /\ targets' = Targets(script, "choctaw_hog", listing, Passing(listing, DOMAIN listing))
    /\ task' = Queued(targets')
    /\ pc' = "pool"
    /\ UNCHANGED err
    /\ EnumUnchanged

\* gh_org_scanner: every repository of the organization.
EnumerateOrg ==
    /\ script = "gh_org_scanner" /\ pc = "enumerate" /\ err = ""
    /\ examined' = Len(listing)
    /\ targets' = Targets(script, "choctaw_hog", listing, DOMAIN listing)
    /\ task' = Queued(targets')
    /\ pc' = "pool"
    /\ UNCHANGED err
    /\ EnumUnchanged

\* gdrive_scanner: the files, split by MIME type, each list sampled.
NotFolder(l) == { i \in DOMAIN l : l[i].mimeType # "application/vnd.google-apps.folder" }
AnkamaliFiles(l) ==
    { i \in NotFolder(l) :
        \/ l[i].mimeType = "application/vnd.google-apps.spreadsheet"
        \/ l[i].mimeType = "application/vnd.google-apps.document" }
DurocFiles(l) == { i \in NotFolder(l) : l[i].mimeType \notin mime_block_list }
DriveSampled(S, k) ==
    IF k # 0 /\ Cardinality(S) > k THEN Sampled(S, k) ELSE {S}

EnumerateDrive ==
    /\ script = "gdrive_scanner" /\ pc = "enumerate" /\ err = ""
    /\ \E docs \in DriveSampled(AnkamaliFiles(listing), sample) :
         \E bins \in DriveSampled(DurocFiles(listing), sample) :
            /\ examined' = Cardinality(docs) + Cardinality(bins)
            /\ targets' =
                 Targets(script, "ankamali_hog", listing, docs)
                 \o Targets(script, "duroc_hog", listing, bins)
            /\ task' = Queued(targets')
    /\ pc' = "pool"
    /\ UNCHANGED err
    /\ EnumUnchanged

(* ------------------------------ dispatch ------------------------------- *)

\* The scanner the pool of this step runs: gdrive_scanner maps scan_ankamali
\* in a first pool and scan_duroc in a second one.
PoolScanner(s, p) ==
    IF p = "pool2" THEN "duroc_hog"
    ELSE IF s = "gdrive_scanner" THEN "ankamali_hog" ELSE "choctaw_hog"

Running == { n \in DOMAIN task : task[n] = "running" }

\* A pool that admits one task more than it has workers.
IdleWorkersOffByOne == PoolWidth(script) - Cardinality(Running) + 1

\* Worker processes of the pool that are not inside a call of the mapped function.
IdleWorkers == PoolWidth(script) - Cardinality(Running)

\* The next task of the pool's queue: the first target of the mapped list that
\* no worker has taken.
IsNextTask(i) ==
    /\ targets[i].scanner = PoolScanner(script, pc)
    /\ task[targets[i].id] = "queued"
    /\ \A j \in 1..(i - 1) :
         targets[j].scanner = targets[i].scanner => task[targets[j].id] # "queued"

\* The frame of a worker inside scan_repo / f / scan_ankamali / scan_duroc:
\* the file name it drew and the command line it launched.
Frame(t, fname) ==
    [ target |-> t.id, scanner |-> t.scanner, results |-> fname,
      outputfile |-> IF t.scanner = "duroc_hog" THEN "" ELSE fname,
      since_commit |-> t.since,
      arg |-> IF t.scanner = "duroc_hog" THEN PathJoin(tempdir, t.name)
              ELSE t.key ]

FrameOf(n) == CHOOSE f \in Range(invocations) : f.target = n

\* The record the mapped function returns.
ResultRecord(t, fname) ==
    [ id |-> t.id, scanner |-> t.scanner,
      repo |-> IF script = "gh_org_scanner" THEN t.name ELSE t.key,
      results |-> fname, url |-> t.url, name |-> t.name ]

PoolUnchanged ==
    UNCHANGED << history, search, script, config, pc, err, sample, listing, examined, targets, output, idx,
                 output_array, comments, posts, log >>

\* An idle worker takes the next task: it draws a uuid4 file name and launches
\* the scanner (scan_duroc first downloads the file to tempdir/<name>).
StartTask ==
    /\ pc \in {"pool", "pool2"} /\ err = ""
    /\ IdleWorkers > 0
    /\ \E i \in 1..Len(targets) :
         /\ IsNextTask(i)
         /\ LET t == targets[i]
                fname == PathJoin(tempdir, Uuid(nextUuid + 1))
            IN /\ nextUuid' = nextUuid + 1
               /\ invocations' = Append(invocations, Frame(t, fname))
               /\ task' = [task EXCEPT ![t.id] = "running"]
               /\ disk' = IF t.scanner = "duroc_hog"
                          THEN WriteFile(disk, PathJoin(tempdir, t.name), Download(t.id))
                          ELSE disk
    /\ UNCHANGED << results, scanned >>
    /\ PoolUnchanged

\* choctaw_hog / ankamali_hog ends: the artifact named by --outputfile holds
\* what the scanner wrote, and the worker returns its record.
FinishScan ==
    /\ pc \in {"pool", "pool2"} /\ err = ""
    /\ \E i \in 1..Len(targets) : \E o \in ScanOutcomes :
         LET t == targets[i]
             f == FrameOf(t.id)
         IN /\ task[t.id] = "running"
            /\ t.scanner # "duroc_hog"
            /\ task' = [task EXCEPT ![t.id] = o]
            /\ disk' = CASE o = "ok" ->
                              WriteFile(disk, f.outputfile, JsonFile(ScannerFindings(t.id)))
                         [] o = "garbled" -> WriteFile(disk, f.outputfile, GarbledFile)
                         [] OTHER -> disk
            /\ results' = (t.id :> ResultRecord(t, f.results)) @@ results
    /\ UNCHANGED << invocations, nextUuid, scanned >>
    /\ PoolUnchanged

\* duroc_hog -z <scan target> ends: it has read the file at the scan target
\* path and printed its findings; it was given no --outputfile.
FinishDuroc ==
    /\ pc = "pool2" /\ err = ""
    /\ \E i \in 1..Len(targets) : \E o \in {"ok", "failed"} :
         LET t == targets[i]
             f == FrameOf(t.id)
         IN /\ task[t.id] = "running"
            /\ t.scanner = "duroc_hog"
            /\ task' = [task EXCEPT ![t.id] = o]
            /\ scanned' = (t.id :> disk[f.arg].of) @@ scanned
            /\ results' = (t.id :> ResultRecord(t, f.results)) @@ results
    /\ UNCHANGED << invocations, nextUuid, disk >>
    /\ PoolUnchanged

PoolTargets == SelectSeq(targets, LAMBDA t : t.scanner = PoolScanner(script, pc))

\* A map that loses the record of the last task.
MapResultsDropsLast(ts) == [i \in 1..(Len(ts) - 1) |-> results[ts[i].id]]

\* p.map returns: one record per element of the mapped list, in its order.
MapResults(ts) == [i \in 1..Len(ts) |-> results[ts[i].id]]

\* A run that goes from the pool straight to the POST.
AfterPoolPublishes(s, p) == "publish"

\* The step after a pool.
AfterPool(s, p) ==
    IF s = "gdrive_scanner" /\ p = "pool" THEN "pool2" ELSE "aggregate"

\* Pool.map returns when every task is done; the with-block ends the pool.
PoolJoin ==
    /\ pc \in {"pool", "pool2"} /\ err = ""
    /\ \A i \in 1..Len(PoolTargets) :
         task[PoolTargets[i].id] \notin {"queued", "running"}
    /\ output' = output \o MapResults(PoolTargets)
    /\ pc' = AfterPool(script, pc)
    /\ idx' = 1
    /\ UNCHANGED << history, search, script, config, err, sample, listing, examined, targets, task, results,
                    invocations, nextUuid, scanned, disk, output_array, comments,
                    posts, log >>

(* ----------------------------- aggregation ---------------------------- *)

\* A fileurl that always points at the new side of the diff.
FileUrlAlwaysNew(u, f) ==
    u \o "/blob/" \o f.commitHash \o "/" \o f.path \o "#L" \o ToString(f.new_line_num)

\* ghe_secret_monitor's fileurl of a finding of the repository at base URL u.
FileUrl(u, f) ==
    IF f.new_line_num # 0
    THEN u \o "/blob/" \o f.commitHash \o "/" \o f.path \o "#L" \o ToString(f.new_line_num)
    ELSE u \o "/blob/" \o f.parent_commit_hash \o "/" \o f.path \o "#L"
           \o ToString(f.old_line_num)

\* The event the Jira scripts build from finding f of record r.
JiraEvent(s, r, f) ==
    IF r.scanner = "gottingen_hog"
    THEN [ eventType |-> "jira_secret_monitor", issue_id |-> f.issue_id, url |-> f.url,
           reason |-> f.reason, location |-> f.location ]
    ELSE [ eventType |-> IF s = "jira_secret_monitor" THEN "gdrive_secret_monitor"
                         ELSE "secret_scanner_GDrive",
           jira_key |-> r.repo, g_drive_id |-> f.g_drive_id, url |-> f.web_link,
           reason |-> f.reason ]

\* An event that carries the name of the artifact it was read from.
EventNamesArtifact(s, r, f) ==
    [ eventType |-> s, commitHash |-> f.commitHash, reason |-> f.reason,
      path |-> f.path, repo |-> r.repo, url |-> r.results ]

\* The event (or CSV row) a script builds from finding f of result record r.
Event(s, r, f) ==
    CASE s = "ghe_secret_monitor" ->
           [ eventType |-> "ghe_secret_monitor", commitHash |-> f.commitHash,
             reason |-> f.reason, path |-> f.path, repo |-> r.repo,
             url |-> r.url \o "/commit/" \o f.commitHash \o "/" \o f.path,
             fileurl |-> FileUrl(r.url, f), old_line_num |-> f.old_line_num,
             new_line_num |-> f.new_line_num,
             parent_commitHash |-> f.parent_commit_hash ]
      [] s = "secret_police" ->
           [ eventType |-> "Secret_Police", commitHash |-> f.commitHash,
             reason |-> f.reason, path |-> f.path, repo |-> r.repo,
             url |-> r.url \o f.commitHash ]
      [] s = "gh_org_scanner" ->
           [ eventType |-> "output.csv", repo |-> r.repo, reason |-> f.reason,
             path |-> f.path, commitHash |-> f.commitHash ]
      [] s = "gdrive_scanner" ->
           [ eventType |-> IF r.scanner = "duroc_hog" THEN "output_duroc.csv"
                           ELSE "output_ankamali.csv",
             repo |-> r.repo, reason |-> f.reason, path |-> f.path ]
      [] OTHER -> JiraEvent(s, r, f)

EventsOf(s, r, fs) == [i \in 1..Len(fs) |-> Event(s, r, fs[i])]

\* result_dict["repo"].split(":")[1][:-4]: the owner/name part of the SSH URL.
RepoFullName(ssh) ==
    LET n == CHOOSE m \in 1..(MaxTargets + 1) : SshUrl(m) = ssh
    IN "org/repo" \o ToString(n)

\* A comment step without the membership test.
CommentOnEvery(fs) == fs

CommentWorthy(fs) == SelectSeq(fs, LAMBDA f : f.reason \in comment_worthy_reasons)

Comment(r, f) ==
    [ repo |-> RepoFullName(r.repo), commit |-> f.commitHash, reason |-> f.reason,
      path |-> f.path, line |-> f.new_line_num ]

CommentsOf(r, fs) ==
    [i \in 1..Len(CommentWorthy(fs)) |-> Comment(r, CommentWorthy(fs)[i])]

\* The records the aggregation loop of this step goes through: gdrive_scanner
\* reads output_duroc first and output_ankamali second.
LoopScanner(s, p) ==
    CASE s = "gdrive_scanner" -> IF p = "aggregate" THEN "duroc_hog" ELSE "ankamali_hog"
      [] s = "jira_secret_monitor" -> IF p = "aggregate" THEN "ankamali_hog" ELSE "gottingen_hog"
      [] s = "jira_secret_scanner" -> "ankamali_hog"
      [] OTHER -> "choctaw_hog"

LoopRecords == SelectSeq(output, LAMBDA r : r.scanner = LoopScanner(script, pc))

InLoop == pc \in {"aggregate", "aggregate2"} /\ err = "" /\ idx <= Len(LoopRecords)

Warning(m) == [level |-> "WARNING", msg |-> m]
Printed(m) == [level |-> "print", msg |-> m]

\* Scripts whose loop logs a warning when open() fails.
LogsOpenFailure(s) == s # "secret_police"

\* Scripts whose aggregation loop removes the artifact it has read.
RemovesArtifact(s) == s # "secret_police"

\* Scripts whose loop body reads the artifact inside try/except.
ReadGuarded(s) == s \in {"gh_org_scanner", "gdrive_scanner"}

AggUnchanged ==
    UNCHANGED << history, search, script, config, sample, listing, examined, targets, task, results,
                 invocations, nextUuid, scanned, output, posts >>

\* ghe_secret_monitor, secret_police: open() raises, the record is skipped
\* (ghe_secret_monitor logs a warning).
AggregateOpenFails ==
    /\ InLoop /\ ~ReadGuarded(script)
    /\ LoopRecords[idx].results \notin DOMAIN disk
    /\ log' = IF LogsOpenFailure(script)
              THEN Append(log, Warning("failed to open " \o LoopRecords[idx].results))
              ELSE log
    /\ idx' = idx + 1
    /\ UNCHANGED << pc, err, disk, output_array, comments >>
    /\ AggUnchanged

\* ghe_secret_monitor, secret_police: json.load raises on an artifact that is
\* not JSON; nothing catches it.
AggregateLoadRaises ==
    /\ InLoop /\ ~ReadGuarded(script)
    /\ LoopRecords[idx].results \in DOMAIN disk
    /\ disk[LoopRecords[idx].results].kind # "json"
    /\ err' = "JSONDecodeError"
    /\ UNCHANGED << pc, idx, disk, output_array, comments, log >>
    /\ AggUnchanged

\* ghe_secret_monitor, secret_police: every finding of the artifact becomes an
\* event; ghe_secret_monitor comments on the comment-worthy ones and removes
\* the artifact.
AggregateFindings ==
    /\ InLoop /\ ~ReadGuarded(script)
    /\ LoopRecords[idx].results \in DOMAIN disk
    /\ disk[LoopRecords[idx].results].kind = "json"
    /\ LET r == LoopRecords[idx]
           fs == disk[r.results].findings
       IN /\ output_array' = output_array \o EventsOf(script, r, fs)
          /\ comments' = IF script = "ghe_secret_monitor"
                         THEN comments \o CommentsOf(r, fs) ELSE comments
          /\ disk' = IF RemovesArtifact(script) THEN RemoveFile(disk, r.results) ELSE disk
    /\ idx' = idx + 1
    /\ UNCHANGED << pc, err, log >>
    /\ AggUnchanged

\* ghe_secret_monitor: get_repo, get_commit, author.login or create_comment
\* raises at the k-th finding, after its event was appended.
AggregateCommentRaises ==
    /\ InLoop /\ script = "ghe_secret_monitor"
    /\ LoopRecords[idx].results \in DOMAIN disk
    /\ disk[LoopRecords[idx].results].kind = "json"
    /\ LET r == LoopRecords[idx]
           fs == disk[r.results].findings
       IN \E k \in 1..Len(fs) :
            /\ fs[k].reason \in comment_worthy_reasons
            /\ output_array' = output_array \o EventsOf(script, r, SubSeq(fs, 1, k))
            /\ comments' = comments \o CommentsOf(r, SubSeq(fs, 1, k - 1))
    /\ err' = "GithubException"
    /\ UNCHANGED << pc, idx, disk, log >>
    /\ AggUnchanged

\* gh_org_scanner, gdrive_scanner: the artifact is read inside try/except; a
\* missing or garbled artifact gives no row.
GuardedRows(s, r) ==
    IF r.results \in DOMAIN disk /\ disk[r.results].kind = "json"
    THEN EventsOf(s, r, disk[r.results].findings)
    ELSE << >>

\* gh_org_scanner: os.remove follows the try/except, outside any handler.
AggregateOrg ==
    /\ InLoop /\ script = "gh_org_scanner"
    /\ LoopRecords[idx].results \in DOMAIN disk
    /\ output_array' = output_array \o GuardedRows(script, LoopRecords[idx])
    /\ disk' = RemoveFile(disk, LoopRecords[idx].results)
    /\ idx' = idx + 1
    /\ UNCHANGED << pc, err, comments, log >>
    /\ AggUnchanged

\* gh_org_scanner: os.remove raises when the artifact does not exist.
AggregateOrgRemoveRaises ==
    /\ InLoop /\ script = "gh_org_scanner"
    /\ LoopRecords[idx].results \notin DOMAIN disk
    /\ err' = "FileNotFoundError"
    /\ UNCHANGED << pc, idx, disk, output_array, comments, log >>
    /\ AggUnchanged

\* gdrive_scanner: both the read and the os.remove are inside try/except.
AggregateDrive ==
    /\ InLoop /\ script = "gdrive_scanner"
    /\ LET r == LoopRecords[idx]
           readable == r.results \in DOMAIN disk /\ disk[r.results].kind = "json"
       IN /\ output_array' = output_array \o GuardedRows(script, r)
          /\ disk' = RemoveFile(disk, r.results)
          /\ log' = IF readable THEN log
                    ELSE Append(log, Printed("error reading " \o r.results))
    /\ idx' = idx + 1
    /\ UNCHANGED << pc, err, comments >>
    /\ AggUnchanged

\* The step after an aggregation loop.
AfterAggregate(s, p) ==
    CASE s = "gdrive_scanner" /\ p = "aggregate" -> "aggregate2"
      [] s \in {"gdrive_scanner", "gh_org_scanner"} -> "done"
      [] s = "jira_secret_monitor" /\ p = "aggregate2" -> "publish2"
      [] OTHER -> "publish"

AggregateEnd ==
    /\ pc \in {"aggregate", "aggregate2"} /\ err = ""
    /\ idx > Len(LoopRecords)
    /\ pc' = AfterAggregate(script, pc)
    /\ idx' = 1
    /\ UNCHANGED << err, disk, output_array, comments, log >>
    /\ AggUnchanged

(* ------------------------------- publish ------------------------------- *)

\* Scripts that build the URL with an f-string; the others use a plain string
\* literal, whose braces are not substituted.
UrlIsFString(s) == s \in {"jira_secret_monitor", "jira_secret_scanner"}

PostUrl(s) ==
    IF UrlIsFString(s)
    THEN "https://insights-collector.newrelic.com/v1/accounts/" \o INSIGHTS_ACCT_ID \o "/events"
    ELSE "https://insights-collector.newrelic.com/v1/accounts/{INSIGHTS_ACCT_ID}/events"

\* The status codes the ingestion endpoint answers with.
StatusCodes == {200, 403, 500}

\* The headers every script sends with the POST.
Headers ==
    [ ContentType |-> "application/json", XInsertKey |-> INSIGHTS_INSERT_KEY,
      ContentEncoding |-> "gzip" ]

\* A POST that sends an empty array whatever was collected.
PostEmptyBody(s, body, status) ==
    [ url |-> PostUrl(s), headers |-> Headers, body |-> << >>, status |-> status ]

\* requests.post(url, data=post, headers=headers); body is the array that
\* was serialised and compressed, status the answer (0: none).
Post(s, body, status) ==
    [ url |-> PostUrl(s), headers |-> Headers, body |-> body, status |-> status ]

\* The levels --log= is given: the default and a more verbose one.
LogLevels == {"WARNING", "INFO"}

\* Scripts that configure logging from --log=; the others print.
HasLogLevel(s) == s \notin {"gh_org_scanner", "gdrive_scanner"}

\* The environment variables a script reads with os.environ[...], in the
\* order it reads them.
RequiredEnv(s) ==
    CASE s \in {"ghe_secret_monitor", "secret_police"} ->
           << "GHE_REPO_TOKEN", "INSIGHTS_INSERT_KEY", "SSH_KEY_PATH", "INSIGHTS_ACCT_ID",
              "GHE_DOMAIN", "CHOCTAW_HOG_PATH" >>
      [] s = "gh_org_scanner" -> << "GITHUB_ACCESS_TOKEN" >>
      [] s = "gdrive_scanner" ->
           << "INSIGHTS_INSERT_KEY", "INSIGHTS_ACCT_ID", "DUROC_HOG_PATH",
              "ANKAMALI_HOG_PATH" >>
      [] s = "jira_secret_monitor" ->
           << "INSIGHTS_INSERT_KEY", "JIRA_USERNAME", "JIRA_PASSWORD", "JIRA_URL",
              "ANKAMALI_HOG_PATH", "GOTTINGEN_HOG_PATH", "INSIGHTS_ACCT_ID" >>
      [] s = "jira_secret_scanner" ->
           << "INSIGHTS_INSERT_KEY", "JIRA_TOKEN", "ANKAMALI_HOG_PATH", "INSIGHTS_ACCT_ID" >>
      [] s \in {"htmldirlisting_secret_monitor", "s3weblisting_secret_monitor"} ->
           << "DOWNLOAD_CONFIG_PATH", "INSIGHTS_INSERT_KEY", "INSIGHTS_ACCT_ID",
              "DUROC_HOG_PATH" >>
      [] s = "pypi_secret_monitor" ->
           << "PYPIPACKAGE_NAME", "INSIGHTS_INSERT_KEY", "INSIGHTS_ACCT_ID", "DUROC_HOG_PATH" >>
      [] OTHER ->
           << "RUBYGEM_NAME", "INSIGHTS_INSERT_KEY", "INSIGHTS_ACCT_ID", "DUROC_HOG_PATH" >>

\* The configuration of a run: the command line and the variables that are
\* not set in the environment.
Configs(s, rs) ==
    { [recursive |-> r, loglevel |-> l, unset |-> u] :
        r \in rs, l \in IF HasLogLevel(s) THEN LogLevels ELSE {"WARNING"},
        u \in SUBSET Range(RequiredEnv(s)) }

LevelNo(l) ==
    CASE l = "INFO" -> 20
      [] l = "WARNING" -> 30
      [] OTHER -> 40

Info(m) == [level |-> "INFO", msg |-> m]

\* logging.<level>(...): the record is emitted when its level is not below
\* the configured one.
Emit(l, rec) ==
    IF LevelNo(rec.level) >= LevelNo(config.loglevel) THEN Append(l, rec) ELSE l

PublishUnchanged ==
    UNCHANGED << history, search, script, config, sample, listing, examined, targets, task, results,
                 invocations, nextUuid, scanned, output, disk, output_array,
                 comments >>

\* A publish step that is entered again after the POST.
AfterPublishRetries(s, p) == p

\* The step after a POST: jira_secret_monitor goes on to its gottingen_hog scan.
AfterPublish(s, p) ==
    IF s = "jira_secret_monitor" /\ p = "publish" THEN "gottingen" ELSE "done"

\* requests.post returns; the status code is logged at INFO.
Publish ==
    /\ pc \in {"publish", "publish2"} /\ err = ""
    /\ \E status \in StatusCodes :
         /\ posts' = Append(posts, Post(script, output_array, status))
         /\ log' = Emit(log, Info("insights status code: " \o ToString(status)))
    /\ pc' = AfterPublish(script, pc)
    /\ idx' = 1
    /\ UNCHANGED err
    /\ PublishUnchanged

\* requests.post raises (connection refused, timeout of the resolver, ...).
PublishRaises ==
    /\ pc \in {"publish", "publish2"} /\ err = ""
    /\ posts' = Append(posts, Post(script, output_array, 0))
    /\ err' = "ConnectionError"
    /\ UNCHANGED << pc, idx, log >>
    /\ PublishUnchanged

(* ----------------------------- configuration -------------------------- *)

\* A start-up that reads no variable.
EnvNotRead(s, u) == TRUE

\* Every os.environ[...] of the script's head finds its variable.
EnvComplete(s, u) == \A i \in DOMAIN RequiredEnv(s) : RequiredEnv(s)[i] \notin u

\* The first variable the script reads that is not set.
FirstUnset(s, u) ==
    LET i == CHOOSE k \in DOMAIN RequiredEnv(s) :
                 /\ RequiredEnv(s)[k] \in u
                 /\ \A j \in 1..(k - 1) : RequiredEnv(s)[j] \notin u
    IN RequiredEnv(s)[i]

Traceback(m) == [level |-> "traceback", msg |-> m]

ConfigUnchanged ==
    UNCHANGED << history, search, script, config, sample, listing, examined, targets, task, results,
                 invocations, nextUuid, scanned, output, idx, disk, output_array,
                 comments, posts >>

\* The head of the script: every variable is read, the run goes on.
Configure ==
    /\ pc = "configure" /\ err = ""
    /\ EnvComplete(script, config.unset)
    /\ pc' = "enumerate"
    /\ UNCHANGED << err, log >>
    /\ ConfigUnchanged

\* os.environ[name] raises KeyError(name) for the first variable that is not
\* set; the interpreter prints the traceback and exits.
ConfigureRaises ==
    /\ pc = "configure" /\ err = ""
    /\ ~EnvComplete(script, config.unset)
    /\ err' = "KeyError"
    /\ log' = Append(log, Traceback("KeyError: '" \o FirstUnset(script, config.unset) \o "'"))
    /\ UNCHANGED pc
    /\ ConfigUnchanged

(* --------------------------- pool-based scripts ------------------------ *)

\* The state every script starts in: nothing dispatched, an empty temp
\* directory, no event collected.
InitRun ==
    /\ pc = "configure"
    /\ err = ""
    /\ examined = 0
    /\ targets = << >>
    /\ task = NoFiles
    /\ results = NoFiles
    /\ invocations = << >>
    /\ nextUuid = 0
    /\ scanned = NoFiles
    /\ output = << >>
    /\ idx = 1
    /\ disk = NoFiles
    /\ output_array = << >>
    /\ comments = << >>
    /\ posts = << >>
    /\ log = << >>
    /\ clock = 0
    /\ pushed = {}
    /\ starts = << >>
    /\ swept = {}
    /\ start_num = 0
    /\ issues = << >>
    /\ total = 0
    /\ result = [total |-> 0, maxResults |-> 0, issues |-> << >>]

Init ==
    /\ script \in PoolScripts
    /\ config \in Configs(script, {FALSE})
    /\ sample \in IF script \in {"ghe_secret_monitor", "gdrive_scanner"}
                  THEN 0..MaxSample ELSE {0}
    /\ listing \in Listings(script)
    /\ InitRun

Next ==
    \/ Configure
    \/ ConfigureRaises
    \/ EnumerateGhe
    \/ EnumerateGheSampleTooLarge
    \/ EnumeratePolice
    \/ EnumerateOrg
    \/ EnumerateDrive
    \/ StartTask
    \/ FinishScan
    \/ FinishDuroc
    \/ PoolJoin
    \/ AggregateOpenFails
    \/ AggregateLoadRaises
    \/ AggregateFindings
    \/ AggregateCommentRaises
    \/ AggregateOrg
    \/ AggregateOrgRemoveRaises
    \/ AggregateDrive
    \/ AggregateEnd
    \/ Publish
    \/ PublishRaises

Spec == Init /\ [][Next]_vars

(* -------------------- directory-listing and package scripts ----------- *)

ListingScripts ==
    { "htmldirlisting_secret_monitor", "s3weblisting_secret_monitor",
      "pypi_secret_monitor", "rubygem_secret_monitor" }

\* Scripts that scan the one latest package of a registry.
PackageScripts == {"pypi_secret_monitor", "rubygem_secret_monitor"}

\* An entry of a directory listing: a file whose name matches the configured
\* regex (and, for S3, is non-empty and new enough), a file that does not, or
\* a directory (an S3 common prefix).
EntryKinds == {"match", "nomatch", "dir"}

Entry(n, k) ==
    [ id |-> n, kind |-> IF k = "dir" THEN "dir" ELSE "file", match |-> k = "match",
      name |-> "pkg-" \o ToString(n) \o ".tar.gz" ]

\* The listings of the configured root: up to MaxEntries entries.
RootListings ==
    UNION { { [i \in 1..k |-> Entry(i, ks[i])] : ks \in [1..k -> EntryKinds] } :
            k \in 0..MaxEntries }

\* The listing of directory d: one matching file.
NestedListing(d) == << Entry(10 * d + 1, "match") >>

Error(m) == [level |-> "ERROR", msg |-> m]

PrefixItem(e) == [id |-> e.id, kind |-> "prefix", match |-> FALSE, name |-> e.name]

Files(l) == SelectSeq(l, LAMBDA e : e.kind = "file")
Prefixes(l) == [i \in 1..Len(SelectSeq(l, LAMBDA e : e.kind = "dir")) |->
                  PrefixItem(SelectSeq(l, LAMBDA e : e.kind = "dir")[i])]

\* The listing the S3 endpoint returns for a prefix item (id 0 is the
\* configured prefix).
PrefixListing(h) == IF h.id = 0 THEN listing ELSE NestedListing(h.id)

\* scan_binary's event for finding f of the file item h.
ListingEvent(s, h, f) ==
    [ eventType |-> s, reason |-> f.reason, path |-> f.path,
      url |-> "https://download.example/" \o h.name, filename |-> h.name ]

ListingEventsOf(s, h, fs) == [i \in 1..Len(fs) |-> ListingEvent(s, h, fs[i])]

\* htmldirlisting's scan_url: "if not file_item.size and recursive" comes
\* first, "elif regex.search(file_item.name)" second; s3weblisting's
\* scan_endpoint scans the keys that match; the package scripts scan their one
\* download.
Recursed(s, h) ==
    s = "htmldirlisting_secret_monitor" /\ h.kind = "dir" /\ config.recursive
Scannable(s, h) ==
    /\ h.kind # "prefix"
    /\ ~Recursed(s, h)
    /\ h.match \/ s \in PackageScripts

\* Scripts whose scan loop catches what scan_binary raises.
ScanGuarded(s) == s = "htmldirlisting_secret_monitor"

ListingUnchanged ==
    UNCHANGED << history, search, script, config, sample, listing, examined, results, nextUuid,
                 scanned, output, idx, comments, posts >>

\* The first listing is fetched: the configured URL (htmldirlisting), the
\* registry's index (pypi, rubygem); s3weblisting starts from its prefix.
FetchListing ==
    /\ script \in ListingScripts /\ pc = "enumerate" /\ err = ""
    /\ targets' = IF script = "s3weblisting_secret_monitor"
                  THEN << [id |-> 0, kind |-> "prefix", match |-> FALSE, name |-> ""] >>
                  ELSE listing
    /\ pc' = "scan"
    /\ UNCHANGED << err, task, invocations, disk, output_array, log >>
    /\ ListingUnchanged

\* htmldirlisting: fetch_listing raises inside scan_url's try; the error is
\* logged and nothing is scanned.
HtmlFetchRaises ==
    /\ script = "htmldirlisting_secret_monitor" /\ pc = "enumerate" /\ err = ""
    /\ targets' = << >>
    /\ log' = Append(log, Error("fetch_listing returned an exception"))
    /\ pc' = "scan"
    /\ UNCHANGED << err, task, invocations, disk, output_array >>
    /\ ListingUnchanged

Scanning == script \in ListingScripts /\ pc = "scan" /\ err = "" /\ targets # << >>

DurocFrame(h) ==
    [ target |-> h.id, scanner |-> "duroc_hog", results |-> "", outputfile |-> "",
      arg |-> PathJoin(tempdir, h.name) ]

\* scan_binary: the file is downloaded to tempdir/<name>, duroc_hog exits 0
\* with a JSON array on stdout, the download is removed, the events are kept.
ScanBinary ==
    /\ Scanning /\ Scannable(script, Head(targets))
    /\ LET h == Head(targets) IN
         /\ invocations' = Append(invocations, DurocFrame(h))
         /\ task' = (h.id :> "ok") @@ task
         /\ disk' = RemoveFile(WriteFile(disk, PathJoin(tempdir, h.name), Download(h.id)),
                               PathJoin(tempdir, h.name))
         /\ output_array' = output_array \o ListingEventsOf(script, h, ScannerFindings(h.id))
    /\ targets' = Tail(targets)
    /\ UNCHANGED << pc, err, log >>
    /\ ListingUnchanged

\* scan_binary: duroc_hog exits non-zero and subprocess.run(check=True) raises
\* CalledProcessError, or its stdout is not JSON and json.loads raises; the
\* download stays.  htmldirlisting's scan_url catches it, logs an error and
\* returns; in the other scripts nothing catches it.
ScanBinaryRaises ==
    /\ Scanning /\ Scannable(script, Head(targets))
    /\ \E o \in {"failed", "garbled"} :
         LET h == Head(targets) IN
         /\ invocations' = Append(invocations, DurocFrame(h))
         /\ task' = (h.id :> o) @@ task
         /\ disk' = WriteFile(disk, PathJoin(tempdir, h.name), Download(h.id))
         /\ IF ScanGuarded(script)
            THEN /\ targets' = << >>
                 /\ log' = Append(log, Error("fetch_listing returned an exception"))
                 /\ UNCHANGED err
            ELSE /\ err' = IF o = "failed" THEN "CalledProcessError" ELSE "JSONDecodeError"
                 /\ UNCHANGED << targets, log >>
    /\ UNCHANGED << pc, output_array >>
    /\ ListingUnchanged

\* The entry is neither scanned nor entered.
SkipEntry ==
    /\ Scanning
    /\ LET h == Head(targets) IN
         h.kind # "prefix" /\ ~Recursed(script, h) /\ ~Scannable(script, h)
    /\ targets' = Tail(targets)
    /\ UNCHANGED << pc, err, task, invocations, disk, output_array, log >>
    /\ ListingUnchanged

\* htmldirlisting: the recursive call scan_url(url, regex, name) lacks the
\* fourth argument; the TypeError is caught by scan_url's except, which logs
\* an error and returns what was collected.
HtmlRecurseRaises ==
    /\ Scanning /\ Recursed(script, Head(targets))
    /\ targets' = << >>
    /\ log' = Append(log, Error("fetch_listing returned an exception"))
    /\ UNCHANGED << pc, err, task, invocations, disk, output_array >>
    /\ ListingUnchanged

\* s3weblisting: the listing of a prefix is fetched; its keys are gone
\* through, then, with recursive set, its common prefixes.
S3Prefix ==
    /\ Scanning /\ Head(targets).kind = "prefix"
    /\ LET l == PrefixListing(Head(targets)) IN
         targets' = Files(l) \o (IF config.recursive THEN Prefixes(l) ELSE << >>)
                      \o Tail(targets)
    /\ UNCHANGED << pc, err, task, invocations, disk, output_array, log >>
    /\ ListingUnchanged

\* s3weblisting: the request or ET.fromstring raises; the error is logged,
\* et_root stays None and et_root.findall raises AttributeError.
S3PrefixRaises ==
    /\ Scanning /\ Head(targets).kind = "prefix"
    /\ log' = Append(log, Error("ET.fromstring returned an exception"))
    /\ err' = "AttributeError"
    /\ UNCHANGED << pc, targets, task, invocations, disk, output_array >>
    /\ ListingUnchanged

\* Nothing is left to scan: the script goes on to its POST.
ScanEnd ==
    /\ script \in ListingScripts /\ pc = "scan" /\ err = "" /\ targets = << >>
    /\ pc' = "publish"
    /\ UNCHANGED << err, targets, task, invocations, disk, output_array, log >>
    /\ ListingUnchanged

InitListing ==
    /\ script \in ListingScripts
    /\ config \in Configs(script, IF script \in PackageScripts THEN {FALSE} ELSE BOOLEAN)
    /\ sample = 0
    /\ listing \in IF script \in PackageScripts THEN {<< Entry(1, "match") >>}
                   ELSE RootListings
    /\ InitRun

NextListing ==
    \/ Configure
    \/ ConfigureRaises
    \/ FetchListing
    \/ HtmlFetchRaises
    \/ ScanBinary
    \/ ScanBinaryRaises
    \/ SkipEntry
    \/ HtmlRecurseRaises
    \/ S3Prefix
    \/ S3PrefixRaises
    \/ ScanEnd
    \/ Publish
    \/ PublishRaises

SpecListing == InitListing /\ [][NextListing]_vars

(* ------------------------------ Jira scripts --------------------------- *)

JiraScripts == {"jira_secret_monitor", "jira_secret_scanner"}

\* The issues the search returns: each with the number of distinct Google
\* document links found in its description and comments.
JiraKey(i) == "SEC-" \o ToString(i)
RECURSIVE LinkCount(_)
LinkCount(ls) == IF ls = << >> THEN 0 ELSE Head(ls) + LinkCount(Tail(ls))

JiraListings ==
    UNION { { [i \in 1..k |-> [id |-> i, name |-> JiraKey(i), links |-> ls[i]]] :
                ls \in { m \in [1..k -> 0..MaxLinks] : LinkCount(m) <= MaxLinks } } :
            k \in 0..MaxIssues }

GdocLink(i, j) ==
    "https://docs.google.com/document/d/doc-" \o ToString(i) \o "-" \o ToString(j)

\* links.items(): one pair per issue that has a link; the inner loop goes
\* through the links of the issue.
LinkTarget(i, j) ==
    [ id |-> 10 * i + j, scanner |-> "ankamali_hog", key |-> JiraKey(i), since |-> "",
      url |-> GdocLink(i, j), name |-> "" ]

RECURSIVE LinkTargets(_, _)
LinkTargets(l, i) ==
    IF i > Len(l) THEN << >>
    ELSE [j \in 1..l[i].links |-> LinkTarget(i, j)] \o LinkTargets(l, i + 1)

\* What ankamali_hog reports for a document and gottingen_hog for an issue.
JiraFinding(n) ==
    [ g_drive_id |-> "doc-" \o ToString(n), web_link |-> "https://docs.google.com/d/" \o ToString(n),
      reason |-> "Slack Token", issue_id |-> "SEC-" \o ToString(n \div 10),
      url |-> "https://jira.example/browse/SEC-" \o ToString(n \div 10),
      location |-> "description" ]
JiraFindings(n) == IF n % 10 = 2 THEN << >> ELSE << JiraFinding(n) >>

JiraUnchanged ==
    UNCHANGED << history, search, script, config, sample, listing, examined, results, scanned,
                 comments, posts >>

\* The search pages are read and the links of every issue collected.
JiraEnumerate ==
    /\ script \in JiraScripts /\ pc = "enumerate" /\ err = ""
    /\ targets' = LinkTargets(listing, 1)
    /\ pc' = "scan"
    /\ idx' = 1
    /\ UNCHANGED << err, task, invocations, nextUuid, output, disk, output_array, log >>
    /\ JiraUnchanged

\* The link is the first of its issue: the outer loop draws the file name.
FirstOfIssue(i) == i = 1 \/ targets[i - 1].key # targets[i].key

\* The file name of the issue of link i: drawn once per issue, before the
\* inner loop over its links.
IssueFile(i) ==
    PathJoin(tempdir, Uuid(IF FirstOfIssue(i) THEN nextUuid + 1 ELSE nextUuid))

JiraRecord(t, fname) ==
    [ id |-> t.id, scanner |-> t.scanner, repo |-> t.key, results |-> fname,
      url |-> t.url, name |-> "" ]

\* What the scanner leaves at --outputfile f.
ScanWrites(d, f, o, fs) ==
    CASE o = "ok" -> WriteFile(d, f, JsonFile(fs))
      [] o = "garbled" -> WriteFile(d, f, GarbledFile)
      [] OTHER -> d

\* ankamali_hog is run on the document of the link; a non-zero exit is logged
\* and the record is appended either way.
JiraScanLink ==
    /\ script \in JiraScripts /\ pc = "scan" /\ err = "" /\ idx <= Len(targets)
    /\ \E o \in ScanOutcomes :
         LET t == targets[idx]
             fname == IssueFile(idx)
         IN /\ nextUuid' = IF FirstOfIssue(idx) THEN nextUuid + 1 ELSE nextUuid
            /\ invocations' = Append(invocations, Frame(t, fname))
            /\ task' = (t.id :> o) @@ task
            /\ disk' = ScanWrites(disk, fname, o, JiraFindings(t.id))
            /\ output' = Append(output, JiraRecord(t, fname))
            /\ log' = IF o = "ok" THEN log
                      ELSE Append(log, Warning("ankamali hog exited with a non-zero status code"))
    /\ idx' = idx + 1
    /\ UNCHANGED << pc, err, targets, output_array >>
    /\ JiraUnchanged

\* gdoc_id_re does not match the link: the inner loop continues.
JiraSkipLink ==
    /\ script \in JiraScripts /\ pc = "scan" /\ err = "" /\ idx <= Len(targets)
    /\ nextUuid' = IF FirstOfIssue(idx) THEN nextUuid + 1 ELSE nextUuid
    /\ task' = (targets[idx].id :> "nomatch") @@ task
    /\ idx' = idx + 1
    /\ UNCHANGED << pc, err, targets, invocations, output, disk, output_array, log >>
    /\ JiraUnchanged

JiraScanEnd ==
    /\ script \in JiraScripts /\ pc = "scan" /\ err = "" /\ idx > Len(targets)
    /\ pc' = "aggregate"
    /\ idx' = 1
    /\ UNCHANGED << err, targets, task, invocations, nextUuid, output, disk,
                    output_array, log >>
    /\ JiraUnchanged

GottingenTarget(i) ==
    [ id |-> 10 * i, scanner |-> "gottingen_hog", key |-> JiraKey(i), since |-> "",
      url |-> "", name |-> "" ]

\* jira_secret_monitor: gottingen_hog is run on the issue, with a file name
\* of its own; the record holds the file name only.
GottingenScan ==
    /\ script = "jira_secret_monitor" /\ pc = "gottingen" /\ err = ""
    /\ idx <= Len(listing)
    /\ \E o \in ScanOutcomes :
         LET t == GottingenTarget(idx)
             fname == PathJoin(tempdir, Uuid(nextUuid + 1))
         IN /\ nextUuid' = nextUuid + 1
            /\ invocations' = Append(invocations, Frame(t, fname))
            /\ task' = (t.id :> o) @@ task
            /\ disk' = ScanWrites(disk, fname, o, JiraFindings(t.id))
            /\ output' = Append(output,
                  [ id |-> t.id, scanner |-> t.scanner, repo |-> "", results |-> fname,
                    url |-> "", name |-> "" ])
            /\ log' = IF o = "ok" THEN log
                      ELSE Append(log, Warning("gottingen hog exited with a non-zero status code"))
    /\ idx' = idx + 1
    /\ UNCHANGED << pc, err, targets, output_array >>
    /\ JiraUnchanged

\* The second aggregation starts from an empty output_array.
GottingenEnd ==
    /\ script = "jira_secret_monitor" /\ pc = "gottingen" /\ err = ""
    /\ idx > Len(listing)
    /\ pc' = "aggregate2"
    /\ idx' = 1
    /\ output_array' = << >>
    /\ UNCHANGED << err, targets, task, invocations, nextUuid, output, disk, log >>
    /\ JiraUnchanged

InitJira ==
    /\ script \in JiraScripts
    /\ config \in Configs(script, {FALSE})
    /\ sample = 0
    /\ listing \in JiraListings
    /\ InitRun

NextJira ==
    \/ Configure
    \/ ConfigureRaises
    \/ JiraEnumerate
    \/ JiraScanLink
    \/ JiraSkipLink
    \/ JiraScanEnd
    \/ AggregateOpenFails
    \/ AggregateLoadRaises
    \/ AggregateFindings
    \/ AggregateEnd
    \/ Publish
    \/ PublishRaises
    \/ GottingenScan
    \/ GottingenEnd

SpecJira == InitJira /\ [][NextJira]_vars

(* ----------------------- Jira scripts, issue search -------------------- *)

\* What the server answers to rest/api/2/search?...&startAt=n when it holds
\* the issues l, pages of m issues and reports the total t.
SearchResponse(l, n, m, t) ==
    [ total |-> t, maxResults |-> m,
      issues |-> IF n >= Len(l) THEN << >> ELSE SubSeq(l, n + 1, Min(n + m, Len(l))) ]

\* The totals a response can report: the number of issues the server returns
\* to this user, or one more or less (an issue created, deleted or hidden
\* while the pages are read).
Totals(l) == { t \in (Len(l) - 1)..(Len(l) + 1) : t >= 0 }

SearchUnchanged ==
    UNCHANGED << history, script, config, sample, listing, examined, targets, task,
                 results, invocations, nextUuid, scanned, output, idx, disk,
                 output_array, comments, posts >>

\* The first request: total and the first page.
SearchFirst ==
    /\ script \in JiraScripts /\ pc = "enumerate" /\ err = ""
    /\ \E m \in 1..MaxPage : \E t \in Totals(listing) :
          /\ result' = SearchResponse(listing, start_num, m, t)
          /\ total' = result'.total
          /\ issues' = issues \o result'.issues
    /\ pc' = "search"
    /\ UNCHANGED << err, start_num, log >>
    /\ SearchUnchanged

\* The body of the first response is not JSON: the error is printed and the
\* script exits with status 1.
SearchFirstRaises ==
    /\ script \in JiraScripts /\ pc = "enumerate" /\ err = ""
    /\ log' = Append(log, Printed("JIRA error"))
    /\ err' = "SystemExit"
    /\ UNCHANGED << pc, start_num, issues, total, result >>
    /\ SearchUnchanged

\* while len(issues) < total: the next page is requested and appended.
SearchPage ==
    /\ script \in JiraScripts /\ pc = "search" /\ err = ""
    /\ Len(issues) < total
    /\ start_num + result.maxResults <= MaxStart
    /\ start_num' = start_num + result.maxResults
    /\ log' = Emit(log, Info("Retrieving results " \o ToString(start_num')))
    /\ \E m \in 1..MaxPage : \E t \in Totals(listing) :
          /\ result' = SearchResponse(listing, start_num', m, t)
          /\ issues' = issues \o result'.issues
    /\ UNCHANGED << pc, err, total >>
    /\ SearchUnchanged

\* r.json() raises inside the loop: nothing catches it.
SearchPageRaises ==
    /\ script \in JiraScripts /\ pc = "search" /\ err = ""
    /\ Len(issues) < total
    /\ start_num + result.maxResults <= MaxStart
    /\ start_num' = start_num + result.maxResults
    /\ log' = Emit(log, Info("Retrieving results " \o ToString(start_num')))
    /\ err' = "JSONDecodeError"
    /\ UNCHANGED << pc, issues, total, result >>
    /\ SearchUnchanged

\* The loop condition is false: the script goes on to the descriptions.
SearchEnd ==
    /\ script \in JiraScripts /\ pc = "search" /\ err = ""
    /\ Len(issues) >= total
    /\ pc' = "links"
    /\ UNCHANGED << err, start_num, issues, total, result, log >>
    /\ SearchUnchanged

InitSearch ==
    /\ script \in JiraScripts
    /\ config \in { c \in Configs(script, {FALSE}) : c.unset = {} }
    /\ sample = 0
    /\ listing \in JiraListings
    /\ InitRun

NextSearch ==
    \/ Configure
    \/ SearchFirst
    \/ SearchFirstRaises
    \/ SearchPage
    \/ SearchPageRaises
    \/ SearchEnd

SpecSearch == InitSearch /\ [][NextSearch]_vars

(* --------------------- ghe_secret_monitor, run after run --------------- *)

\* The hours that pass between two events.
HoursBetween == {12, 36}

\* A cutoff that resumes where the previous run started.
CutoffFromLastRun(today, earlier) ==
    IF earlier = << >> THEN today - WindowHours ELSE earlier[Len(earlier)]

\* today = datetime.today(); twentyfourhoursago = today - timedelta(hours=24):
\* nothing an earlier run left is read.
Cutoff(today, earlier) == today - WindowHours

\* list(repo.get_commits(since=cutoff)), newest first.  Whether a commit made
\* exactly at the cutoff is listed is the API's choice (atCutoff).
Window(all, cutoff, atCutoff) ==
    LET in == { c \in all : c > cutoff \/ (atCutoff /\ c = cutoff) }
        asc == SortedSeq(in)
    IN  [i \in 1..Len(asc) |-> asc[Len(asc) + 1 - i]]

\* The commits choctaw_hog --since_commit reads: from that commit to the head.
ScannedSince(all, commits) ==
    IF commits = << >> THEN {} ELSE { c \in all : c >= SinceCommit(commits) }

RunsUnchanged ==
    UNCHANGED << search, script, config, pc, err, sample, listing, examined, targets, task,
                 results, invocations, nextUuid, scanned, output, idx, disk,
                 output_array, comments, posts, log >>

\* Time passes.
Tick ==
    /\ \E d \in HoursBetween : clock + d <= MaxClock /\ clock' = clock + d
    /\ UNCHANGED << pushed, starts, swept >>
    /\ RunsUnchanged

\* Somebody pushes a commit to the repository.
PushCommit ==
    /\ Cardinality(pushed) < MaxCommits /\ clock \notin pushed
    /\ pushed' = pushed \cup {clock}
    /\ UNCHANGED << clock, starts, swept >>
    /\ RunsUnchanged

\* One run of ghe_secret_monitor: the commits since the cutoff are listed and,
\* when there is one, the scanner is started from the oldest of them.
MonitorRun ==
    /\ Len(starts) < MaxRuns
    /\ starts # << >> => clock > starts[Len(starts)]
    /\ \E atCutoff \in BOOLEAN :
          LET commits == Window(pushed, Cutoff(clock, starts), atCutoff)
          IN  swept' = swept \cup ScannedSince(pushed, commits)
    /\ starts' = Append(starts, clock)
    /\ UNCHANGED << clock, pushed >>
    /\ RunsUnchanged

InitRuns ==
    /\ script = "ghe_secret_monitor"
    /\ config \in { c \in Configs(script, {FALSE}) : c.unset = {} }
    /\ sample = 0
    /\ listing = << >>
    /\ InitRun

NextRuns ==
    \/ Tick
    \/ PushCommit
    \/ MonitorRun

SpecRuns == InitRuns /\ [][NextRuns]_vars

(* ------------------------------ properties ----------------------------- *)

Dispatched == pc \in {"aggregate", "aggregate2", "publish", "done"}

\* The identity of target t as the mapped function puts it in its record.
RecordKey(t) == IF script = "gh_org_scanner" THEN t.name ELSE t.key

\* C1: once the dispatch has returned, there is exactly one scanner invocation
\* and exactly one result record per dispatched target, and no other record:
\* N invocations and N records for N targets, whatever the order in which the
\* workers finished.
C1_OneRecordPerTarget ==
    Dispatched =>
        /\ Len(invocations) = Len(targets)
        /\ Len(output) = Len(targets)
        /\ \A i \in DOMAIN targets :
             /\ Cardinality({ j \in DOMAIN invocations :
                                invocations[j].target = targets[i].id }) = 1
             /\ Cardinality({ j \in DOMAIN output :
                                /\ output[j].repo = RecordKey(targets[i])
                                /\ output[j].scanner = targets[i].scanner }) = 1

\* C1 witness: a dispatch of more targets than the pool has workers returned.
C1_Witness ==
    /\ pc = "aggregate"
    /\ Len(targets) > PoolWidth(script)
    /\ Len(output) = Len(targets)
    /\ \E n \in DOMAIN task : task[n] = "failed"
    /\ \E n \in DOMAIN task : task[n] = "ok"

\* C2: a record whose scan failed (non-zero exit, no artifact) gives no event
\* and the aggregation loop does not raise on it.
C2_FailedScanSkipped ==
    \A i \in DOMAIN output :
        task[output[i].id] = "failed" /\ output[i].scanner # "duroc_hog" =>
            /\ \A k \in DOMAIN output_array : output_array[k].repo # output[i].repo
            /\ ~( /\ err # ""
                  /\ pc \in {"aggregate", "aggregate2"}
                  /\ idx <= Len(LoopRecords)
                  /\ LoopRecords[idx] = output[i] )

\* C3: in ghe_secret_monitor an artifact that is not valid JSON is skipped:
\* the aggregation loop does not end on it.
C3_ParseFailureSkipped ==
    script = "ghe_secret_monitor" =>
        \A i \in DOMAIN output :
            task[output[i].id] = "garbled" =>
                ~( err # "" /\ pc = "aggregate" /\ idx = i )

\* C4: the artifact of every record the aggregation loop is done with is gone
\* from the disk, and at the end of the run none is left.
C4_ArtifactsRemoved ==
    /\ pc \in {"aggregate", "aggregate2"} =>
         \A i \in 1..(idx - 1) :
            i <= Len(LoopRecords) => LoopRecords[i].results \notin DOMAIN disk
    /\ pc \in {"publish", "done"} =>
         \A i \in DOMAIN output : output[i].results \notin DOMAIN disk

\* C5: a scanner invocation that exits non-zero never aborts the run: no
\* exception propagates out of the scan of that target, and once the run is
\* over every other matching file of the listing was scanned as well.
C5_ScanFailureContained ==
    \A n \in DOMAIN task :
        task[n] = "failed" =>
            /\ err # "CalledProcessError"
            /\ script \in ListingScripts /\ pc \in {"publish", "done"} =>
                 \A i \in DOMAIN listing :
                    Scannable(script, listing[i]) => listing[i].id \in DOMAIN task

\* C6: at every moment at most PoolWidth scanner processes run, and they all
\* belong to the pool of the current step (the two pools of gdrive_scanner
\* never overlap).
C6_BoundedConcurrency ==
    /\ Cardinality(Running) <= PoolWidth(script)
    /\ \A n \in Running :
         /\ pc \in {"pool", "pool2"}
         /\ FrameOf(n).scanner = PoolScanner(script, pc)

\* C6 witness: every worker of gdrive_scanner's second pool is busy while a
\* task still waits.
C6_Witness ==
    /\ script = "gdrive_scanner" /\ pc = "pool2"
    /\ Cardinality(Running) = PoolWidth(script)
    /\ \E n \in DOMAIN task : task[n] = "queued"

\* C7: no two scanner invocations are passed the same --outputfile path and no
\* two result records reference the same artifact path, also when one Jira
\* issue holds several Google document links.
C7_UniqueOutputPaths ==
    /\ \A i, j \in DOMAIN invocations :
         invocations[i].outputfile # "" /\ invocations[i].outputfile = invocations[j].outputfile
            => i = j
    /\ \A i, j \in DOMAIN output : output[i].results = output[j].results => i = j

\* C8: the scanner of every scan_duroc worker reads the content that worker
\* downloaded.
C8_WorkersReadOwnFiles ==
    \A n \in DOMAIN scanned : scanned[n] = n

\* C9: the fileurl of every ghe_secret_monitor event points at
\* <html url>/blob/<commitHash>/<path>#L<new_line_num> when new_line_num is not 0
\* and at <html url>/blob/<parent_commit_hash>/<path>#L<old_line_num> when it is 0;
\* the finding of x.go (new 0, old 42, parent abc, commit def) gives
\* <html url>/blob/abc/x.go#L42.
C9_FileUrl ==
    script = "ghe_secret_monitor" =>
        \A k \in DOMAIN output_array :
            LET e == output_array[k] IN
            \E n \in 1..Len(listing) :
                /\ e.repo = SshUrl(n)
                /\ e.new_line_num # 0 =>
                     e.fileurl = HtmlUrl(n) \o "/blob/" \o e.commitHash \o "/" \o e.path
                                   \o "#L" \o ToString(e.new_line_num)
                /\ e.new_line_num = 0 =>
                     e.fileurl = HtmlUrl(n) \o "/blob/" \o e.parent_commitHash \o "/"
                                   \o e.path \o "#L" \o ToString(e.old_line_num)
                /\ e.path = "x.go" => e.fileurl = HtmlUrl(n) \o "/blob/abc/x.go#L42"
                /\ e.path = "config.yml" =>
                     e.fileurl = HtmlUrl(n) \o "/blob/c0ffee/config.yml#L7"

\* C9 witness: events of both kinds were collected.
C9_Witness ==
    /\ script = "ghe_secret_monitor"
    /\ \E k \in DOMAIN output_array : output_array[k].new_line_num = 0
    /\ \E k \in DOMAIN output_array : output_array[k].new_line_num # 0

Enumerated == pc \notin {"configure", "enumerate"}

SampleApplies == sample > 0 /\ Len(listing) > sample /\ Enumerated

\* C10 as claimed: with --sample=N and more than N discovered targets, exactly
\* N targets are dispatched.
C10_ExactlyNDispatched ==
    SampleApplies => Len(targets) = sample

DispatchedTo(sc) == { i \in DOMAIN targets : targets[i].scanner = sc }

\* C10 as amended: with --sample=N and more than N discovered targets,
\* ghe_secret_monitor keeps exactly N repositories and dispatches those of them
\* that pass the commit filter, at most N and none twice; gdrive_scanner
\* dispatches min(N, number of documents) documents and min(N, number of
\* binaries) binaries, none twice.
C10_AtMostNDispatched ==
    SampleApplies =>
        /\ \A i, j \in DOMAIN targets : targets[i].id = targets[j].id => i = j
        /\ script = "ghe_secret_monitor" =>
             examined = sample /\ Len(targets) <= sample
        /\ script = "gdrive_scanner" =>
             /\ Cardinality(DispatchedTo("ankamali_hog"))
                  = Min(sample, Cardinality(AnkamaliFiles(listing)))
             /\ Cardinality(DispatchedTo("duroc_hog"))
                  = Min(sample, Cardinality(DurocFiles(listing)))

\* C10 witness: a sampled run of ghe_secret_monitor dispatched fewer than N
\* targets and went on to aggregate them.
C10_Witness ==
    /\ script = "ghe_secret_monitor" /\ SampleApplies
    /\ Len(targets) > 0 /\ Len(targets) < sample
    /\ pc = "aggregate"

\* C11: with --sample=N and N not smaller than the number of discovered
\* targets, the run does not fail in the sampling step and every discovered
\* target stays eligible for dispatch.
C11_LargeSampleKeepsAll ==
    /\ script = "ghe_secret_monitor" /\ sample > 0 /\ sample >= Len(listing) =>
         /\ err # "ValueError"
         /\ Enumerated => examined = Len(listing)
    /\ script = "gdrive_scanner" /\ sample > 0 /\ Enumerated =>
         /\ sample >= Cardinality(AnkamaliFiles(listing)) =>
              Cardinality(DispatchedTo("ankamali_hog")) = Cardinality(AnkamaliFiles(listing))
         /\ sample >= Cardinality(DurocFiles(listing)) =>
              Cardinality(DispatchedTo("duroc_hog")) = Cardinality(DurocFiles(listing))

\* The records of ghe_secret_monitor the aggregation loop has gone through.
Aggregated ==
    CASE pc = "aggregate" -> 1..(idx - 1)
      [] pc \in {"publish", "done"} -> DOMAIN output
      [] OTHER -> {}

\* C12: in ghe_secret_monitor create_comment is called only for findings whose
\* reason is in comment_worthy_reasons, and every finding of an aggregated
\* artifact, comment-worthy or not, has its event in output_array.
C12_CommentsGatedByReason ==
    script = "ghe_secret_monitor" =>
        /\ \A k \in DOMAIN comments : comments[k].reason \in comment_worthy_reasons
        /\ \A i \in Aggregated :
             task[output[i].id] = "ok" =>
                \A j \in DOMAIN ScannerFindings(output[i].id) :
                   \E k \in DOMAIN output_array :
                      /\ output_array[k].repo = output[i].repo
                      /\ output_array[k].reason = ScannerFindings(output[i].id)[j].reason
                      /\ output_array[k].path = ScannerFindings(output[i].id)[j].path

\* C12 witness: the aggregation is over, a comment was posted, and an event of
\* a finding outside the list was recorded.
C12_Witness ==
    /\ script = "ghe_secret_monitor" /\ pc = "publish"
    /\ Len(comments) > 0
    /\ \E k \in DOMAIN output_array : output_array[k].reason \notin comment_worthy_reasons

\* C13: in ghe_secret_monitor a failure while commenting on a commit does not
\* end the run: no exception of the comment step leaves the aggregation loop.
C13_CommentFailureContained ==
    script = "ghe_secret_monitor" => err # "GithubException"

\* C14: a run performs exactly one POST, after the aggregation, carrying the
\* whole event collection of the run: never more than one POST, and once the
\* run is over exactly one, whose body is the collection.
C14_OnePostPerRun ==
    /\ Len(posts) <= 1
    /\ pc = "done" /\ HasLogLevel(script) =>
         Len(posts) = 1 /\ posts[1].body = output_array

\* C15: every POST goes to
\* https://insights-collector.newrelic.com/v1/accounts/<INSIGHTS_ACCT_ID>/events
\* with the headers Content-Type: application/json, X-Insert-Key:
\* <INSIGHTS_INSERT_KEY> and Content-Encoding: gzip.
C15_PostUrlAndHeaders ==
    \A k \in DOMAIN posts :
        /\ posts[k].url = "https://insights-collector.newrelic.com/v1/accounts/"
                            \o INSIGHTS_ACCT_ID \o "/events"
        /\ posts[k].headers.ContentType = "application/json"
        /\ posts[k].headers.XInsertKey = INSIGHTS_INSERT_KEY
        /\ posts[k].headers.ContentEncoding = "gzip"

\* C16: whatever status the endpoint returns, the collection is POSTed at most
\* once: after the POST the run is over and takes no further step.
C16_NoRetry ==
    /\ Len(posts) <= 1
    /\ Len(posts) = 1 /\ err = "" => pc = "done" /\ ~ENABLED Next

\* C16 witness: the endpoint answered 500 and the run ended.
C16_Witness ==
    /\ pc = "done" /\ Len(posts) = 1 /\ posts[1].status = 500
    /\ Len(posts[1].body) > 0

\* C17: a publish failure, a non-2xx answer or a network error, shows in a log
\* record and the run ends without an uncaught exception.
C17_PublishFailureLogged ==
    /\ err # "ConnectionError"
    /\ \A k \in DOMAIN posts :
         posts[k].status # 200 =>
            \E j \in DOMAIN log :
               log[j].msg = "insights status code: " \o ToString(posts[k].status)

\* C18: every record whose scan exited non-zero, left no artifact or left an
\* artifact that is not JSON has, once the aggregation is over, a log record
\* naming its artifact; no failure is swallowed silently.
C18_FailuresLogged ==
    pc \in {"publish", "done"} =>
        \A i \in DOMAIN output :
            task[output[i].id] \in {"failed", "garbled"} /\ output[i].scanner # "duroc_hog" =>
                \E j \in DOMAIN log :
                    log[j].msg \in { "failed to open " \o output[i].results,
                                     "error reading " \o output[i].results }

\* The end-to-end scenario: ghe_secret_monitor dispatched 3 targets, 2 scans
\* succeeded with one finding each, 1 exited non-zero leaving no artifact, and
\* the run is over.
ThreeTargetScenario ==
    /\ script = "ghe_secret_monitor" /\ pc = "done"
    /\ Len(targets) = 3
    /\ Cardinality({ n \in DOMAIN task : task[n] = "failed" }) = 1
    /\ Cardinality({ n \in DOMAIN task :
                       task[n] = "ok" /\ Len(ScannerFindings(n)) = 1 }) = 2

StatusLogged ==
    \E j \in DOMAIN log :
        log[j].msg = "insights status code: " \o ToString(posts[1].status)

EmptyResult(n) == task[n] = "ok" /\ ScannerFindings(n) = << >>

AllEmpty == Len(targets) > 0 /\ \A n \in DOMAIN task : EmptyResult(n)

ReportedFor(e, n) ==
    \E j \in DOMAIN ScannerFindings(n) :
        LET f == ScannerFindings(n)[j] IN
        /\ e.commitHash = f.commitHash /\ e.reason = f.reason /\ e.path = f.path
        /\ e.url = IF script = "ghe_secret_monitor"
                   THEN HtmlUrl(n) \o "/commit/" \o f.commitHash \o "/" \o f.path
                   ELSE HtmlUrl(n) \o "/commit/" \o f.commitHash

\* C21: in ghe_secret_monitor and secret_police every event carries the SSH
\* URL and the URL base of a dispatched repository whose scan succeeded and
\* whose scanner reported the finding of the event, whatever the order in
\* which the workers took and finished their tasks.
C21_EventsKeepTheirTarget ==
    script \in {"ghe_secret_monitor", "secret_police"} =>
        \A k \in DOMAIN output_array :
            \E i \in DOMAIN targets :
                /\ output_array[k].repo = SshUrl(targets[i].id)
                /\ task[targets[i].id] = "ok"
                /\ ReportedFor(output_array[k], targets[i].id)

\* C21 witness: events of two repositories with different findings were
\* collected while more repositories were dispatched than the pool has workers.
C21_Witness ==
    /\ script = "secret_police" /\ pc = "publish"
    /\ Len(targets) > PoolWidth(script)
    /\ \E k, m \in DOMAIN output_array :
         /\ output_array[k].repo # output_array[m].repo
         /\ output_array[k].reason # output_array[m].reason

\* The events of a run as a function of its targets and of what the scanner
\* did for each of them, and of nothing else: neither an artifact name nor the
\* order in which the workers finished appears in it.
RECURSIVE EventsFrom(_)
EventsFrom(ts) ==
    IF ts = << >> THEN << >>
    ELSE (IF task[Head(ts).id] = "ok"
          THEN EventsOf(script, ResultRecord(Head(ts), ""), ScannerFindings(Head(ts).id))
          ELSE << >>)
         \o EventsFrom(Tail(ts))

\* C22: without --sample, the events ghe_secret_monitor and secret_police
\* publish are determined by the target set and the scanner's results alone:
\* two runs on the same targets with the same scanner collect the same events.
C22_EventsDependOnTargetsOnly ==
    /\ script \in {"ghe_secret_monitor", "secret_police"}
    /\ sample = 0 /\ pc \in {"publish", "done"}
    => /\ Range(output_array) = Range(EventsFrom(targets))
       /\ Len(output_array) = Len(EventsFrom(targets))

\* C22 witness: a run over more targets than workers, some scans failed, ended
\* with events collected.
C22_Witness ==
    /\ script = "ghe_secret_monitor" /\ sample = 0 /\ pc = "done"
    /\ Len(targets) > PoolWidth(script)
    /\ Len(output_array) > 2
    /\ \E n \in DOMAIN task : task[n] = "failed"
    /\ nextUuid = Len(targets)

\* C23: when a required variable is not set, the run ends in its head with a
\* diagnostic naming such a variable: no target is enumerated, no scanner is
\* invoked, no comment is posted and no POST is made.
C23_MissingVariableAborts ==
    config.unset # {} =>
        /\ pc = "configure"
        /\ examined = 0 /\ targets = << >> /\ invocations = << >>
        /\ comments = << >> /\ posts = << >>
        /\ err # "" =>
             /\ err = "KeyError"
             /\ \E v \in config.unset : \E j \in DOMAIN log : log[j].msg = "KeyError: '" \o v \o "'"

\* C23 witness: ghe_secret_monitor started without SSH_KEY_PATH and
\* CHOCTAW_HOG_PATH and ended naming the first of them.
C23_Witness ==
    /\ script = "ghe_secret_monitor"
    /\ config.unset = {"SSH_KEY_PATH", "CHOCTAW_HOG_PATH"}
    /\ err = "KeyError"
    /\ \E j \in DOMAIN log : log[j].msg = "KeyError: 'SSH_KEY_PATH'"

\* File h of a listing was scanned and its findings are in the collection.
ScannedAndCollected(h) ==
    /\ h.id \in DOMAIN task
    /\ \A j \in DOMAIN ScannerFindings(h.id) :
         \E k \in DOMAIN output_array :
            /\ output_array[k].filename = h.name
            /\ output_array[k].reason = ScannerFindings(h.id)[j].reason

\* C24: with recursive set, once the scan of a fetched root listing is over
\* and no scanner has failed, every matching file of the root and of every
\* directory under it was scanned and its findings are in the collection that
\* is published.
C24_RecursionScansNested ==
    /\ script \in {"htmldirlisting_secret_monitor", "s3weblisting_secret_monitor"}
    /\ config.recursive /\ pc \in {"publish", "done"}
    /\ task # NoFiles /\ \A n \in DOMAIN task : task[n] = "ok"
    => \A i \in DOMAIN listing :
          /\ listing[i].kind = "file" /\ listing[i].match => ScannedAndCollected(listing[i])
          /\ listing[i].kind = "dir" =>
               ScannedAndCollected(NestedListing(listing[i].id)[1])

\* C25: every result record references the path its scanner invocation was
\* given as --outputfile, also when the scanner failed.
C25_RecordNamesOutputFile ==
    \A i \in DOMAIN output :
        \E j \in DOMAIN invocations :
            /\ invocations[j].target = output[i].id
            /\ invocations[j].scanner = output[i].scanner
            /\ invocations[j].outputfile = output[i].results

\* C26: in the Jira scripts every finding written by an ankamali_hog run that
\* succeeded has exactly one event in the collection that is published, also
\* when one issue has several links.
C26_EveryFindingOneEvent ==
    script \in JiraScripts /\ pc = "publish" =>
        \A i \in DOMAIN output :
            task[output[i].id] = "ok" =>
                \A j \in DOMAIN JiraFindings(output[i].id) :
                    Cardinality({ k \in DOMAIN output_array :
                                    output_array[k].g_drive_id
                                      = JiraFindings(output[i].id)[j].g_drive_id }) = 1

\* C27: when a run is over, normally or with an exception, no content that was
\* downloaded into the temp directory to be scanned is left there.
C27_DownloadsRemoved ==
    pc = "done" \/ err # "" =>
        \A f \in DOMAIN disk : disk[f].kind # "download"

\* The repositories of the listing whose commit listing succeeded, with at
\* least one commit since the cutoff and an SSH URL.
RecentRepos ==
    { n \in DOMAIN listing : /\ listing[n].get_commits = "ok"
                             /\ listing[n].commits # << >>
                             /\ listing[n].ssh_url # "" }

InGap(c) ==
    \E k \in 1..(Len(starts) - 1) :
        /\ starts[k + 1] - starts[k] > WindowHours
        /\ starts[k] < c /\ c < starts[k + 1] - WindowHours

AggregationBegun ==
    idx > 1 \/ output_array # << >> \/ comments # << >> \/ pc \in {"aggregate2", "done"}

\* Every scanner invocation of the run was started and has ended.
AllScansOver ==
    /\ Len(invocations) = Len(targets)
    /\ \A n \in DOMAIN task : task[n] \in ScanOutcomes

\* The loop has dealt with record r: the events of a successful scan were
\* collected and its artifact removed where the script removes it; the failure
\* to open the artifact of a failed scan was logged where the script logs it.
Processed(r) ==
    /\ task[r.id] = "ok" =>
         /\ Range(EventsOf(script, r, ScannerFindings(r.id))) \subseteq Range(output_array)
         /\ RemovesArtifact(script) => r.results \notin DOMAIN disk
    /\ task[r.id] = "failed" /\ LogsOpenFailure(script) =>
         Warning("failed to open " \o r.results) \in Range(log)

\* C30: in a pool-based run, once the aggregation loop has begun every
\* dispatched scanner invocation is over, and once the POST was made the
\* dispatch has returned a record for every target, the loop has processed
\* every record, and no scanner is running.
C30_PhasesOrdered ==
    script \in PoolScripts =>
        /\ AggregationBegun => AllScansOver /\ Len(output) <= Len(targets)
        /\ posts # << >> =>
             /\ AllScansOver /\ Running = {}
             /\ Len(output) = Len(targets)
             /\ \A i \in DOMAIN output : Processed(output[i])
             /\ posts[1].body = output_array

\* secret_police posted after four scans on three workers, one of which
\* failed, and after the events of the others were collected.
C30_Witness ==
    /\ script = "secret_police" /\ Len(posts) = 1 /\ err = ""
    /\ Len(targets) = 4 /\ Len(invocations) = 4
    /\ Cardinality({ n \in DOMAIN task : task[n] = "failed" }) = 1
    /\ Len(posts[1].body) >= 3

\* C31: the pagination loop of the Jira search ends when a page returns no
\* issues: after such a page the loop condition is false, so no further page
\* is requested.
C31_EmptyPageEndsSearch ==
    script \in JiraScripts /\ pc = "search" /\ result.issues = << >> =>
        Len(issues) >= total

\* The listed files a scanner of the given name was pointed at.
SentTo(sc) == { targets[i].id : i \in DispatchedTo(sc) }

\* C32: in gdrive_scanner no listed file goes to both scanners and no folder
\* goes to either: ankamali_hog gets only documents and spreadsheets, duroc_hog
\* only files whose type is not in the block list, no file twice, and each
\* file is scanned by at most one scanner invocation, with or without --sample.
C32_OneScannerPerFile ==
    script = "gdrive_scanner" /\ Enumerated =>
        /\ SentTo("ankamali_hog") \cap SentTo("duroc_hog") = {}
        /\ SentTo("ankamali_hog") \cup SentTo("duroc_hog")
             = { targets[i].id : i \in DOMAIN targets }
        /\ Cardinality(SentTo("ankamali_hog") \cup SentTo("duroc_hog")) = Len(targets)
        /\ \A n \in SentTo("ankamali_hog") :
             listing[n].mimeType \in { "application/vnd.google-apps.document",
                                       "application/vnd.google-apps.spreadsheet" }
        /\ \A n \in SentTo("duroc_hog") : listing[n].mimeType \notin mime_block_list
        /\ \A i \in DOMAIN targets :
             listing[targets[i].id].mimeType # "application/vnd.google-apps.folder"
        /\ \A j, k \in DOMAIN invocations :
             invocations[j].target = invocations[k].target => j = k

\* A folder with a document, a spreadsheet, two binaries and a sub-folder was
\* listed with --sample=1: one of the documents went to ankamali_hog, one of
\* the binaries to duroc_hog, and both scanners ran.
C32_Witness ==
    /\ script = "gdrive_scanner" /\ sample = 1 /\ Dispatched
    /\ Len(listing) = 5
    /\ listing[2].mimeType = "application/vnd.google-apps.spreadsheet"
    /\ listing[5].mimeType = "application/vnd.google-apps.folder"
    /\ Cardinality(SentTo("ankamali_hog")) = 1 /\ Cardinality(SentTo("duroc_hog")) = 1
    /\ Len(invocations) = 2

=============================================================================
